---- MODULE Spec2Model ----
(***************************************************************************)
(* Realtime websocket session of go-bitmex (package realtime):            *)
(* Connect = New -> signture -> subscribe -> read loop (classify, decode,  *)
(* push) -> unsubscribe -> Close, with the ping keeper running beside it.  *)
(***************************************************************************)
EXTENDS Integers, Sequences, FiniteSets, TLC

\* ------------------------------------------------------------------ bounds
\* frames the read loop reads in SpecStream
MaxFrames == 3
\* frames a whole session reads in Spec
MaxSessionFrames == 1
\* ping writes one keeper issues
MaxPings == 1
\* buffer size of the caller's output channel (make(chan Response, n))
ChanCap == 1
\* frames read in the single-pass specification SpecFrame
MaxFramesOne == 1
\* raw rows in each side of an order book message
MaxRows == 2
\* ticks of the keeper's ticker in SpecKeeper
MaxKeeperPings == 2
\* channels and symbols Connect is called with in SpecSubscribe
MaxChannels == 2
MaxSymbols == 2

\* ----------------------------------------------------------------- strings
\* strings.HasPrefix
HasPrefix(s, prefix) ==
    Len(s) >= Len(prefix) /\ SubSeq(s, 1, Len(prefix)) = prefix

\* strings.HasSuffix
HasSuffix(s, suffix) ==
    Len(s) >= Len(suffix) /\ SubSeq(s, Len(s) - Len(suffix) + 1, Len(s)) = suffix

\* strings.Contains
Contains(s, substr) ==
    \E i \in 1..(Len(s) - Len(substr) + 1) : SubSeq(s, i, i + Len(substr) - 1) = substr

\* strings.Index: 0-based position of the first occurrence, -1 when absent
Index(s, substr) ==
    IF Contains(s, substr)
    THEN (CHOOSE i \in 1..Len(s) :
             /\ SubSeq(s, i, i + Len(substr) - 1) = substr
             /\ \A j \in 1..(i - 1) : SubSeq(s, j, j + Len(substr) - 1) # substr) - 1
    ELSE -1

\* the Go slice expression s[k:] (k 0-based)
SliceFrom(s, k) == SubSeq(s, k + 1, Len(s))

\* ------------------------------------------------------------------- types
\* the cases with orderBook tested before orderBookL and trade before tradeBin
CasesShortFirst ==
    << [prefix |-> "quote",                types |-> "Quote",                   field |-> "Quote"],
       [prefix |-> "orderBook",            types |-> "Orderbook",               field |-> "Orderbook"],
       [prefix |-> "orderBookL",           types |-> "OrderbookL",              field |-> "OrderbookL"],
       [prefix |-> "trade",                types |-> "Trade",                   field |-> "Trade"],
       [prefix |-> "tradeBin",             types |-> "TradeBin",                field |-> "TradeBin"],
       [prefix |-> "announcement",         types |-> "Announcement",            field |-> "Announcement"],
       [prefix |-> "chat",                 types |-> "Chat",                    field |-> "Chat"],
       [prefix |-> "connected",            types |-> "Connected",               field |-> "Connected"],
       [prefix |-> "funding",              types |-> "Funding",                 field |-> "Funding"],
       [prefix |-> "instrument",           types |-> "Instrument",              field |-> "Instrument"],
       [prefix |-> "insurance",            types |-> "Insurance",               field |-> "Insurance"],
       [prefix |-> "settlement",           types |-> "Settlement",              field |-> "Settlement"],
       [prefix |-> "publicNotifications",  types |-> "Notifications",           field |-> "Notifications"],
       [prefix |-> "execution",            types |-> "Execution",               field |-> "Execution"],
       [prefix |-> "order",                types |-> "Order",                   field |-> "Order"],
       [prefix |-> "margin",               types |-> "Margin",                  field |-> "Margin"],
       [prefix |-> "position",             types |-> "Position",                field |-> "Position"],
       [prefix |-> "transact",             types |-> "Transact",                field |-> "Transact"],
       [prefix |-> "wallet",               types |-> "Wallet",                  field |-> "Wallet"],
       [prefix |-> "privateNotifications", types |-> "NotificationsForPrivate", field |-> "NotificationsForPrivate"],
       [prefix |-> "affiliate",            types |-> "Affiliate",               field |-> "Affiliate"] >>

\* the cases with the tradeBin case decoding into r.Trade
CasesWrongField ==
    << [prefix |-> "quote",                types |-> "Quote",                   field |-> "Quote"],
       [prefix |-> "orderBookL",           types |-> "OrderbookL",              field |-> "OrderbookL"],
       [prefix |-> "orderBook",            types |-> "Orderbook",               field |-> "Orderbook"],
       [prefix |-> "tradeBin",             types |-> "TradeBin",                field |-> "Trade"],
       [prefix |-> "trade",                types |-> "Trade",                   field |-> "Trade"],
       [prefix |-> "announcement",         types |-> "Announcement",            field |-> "Announcement"],
       [prefix |-> "chat",                 types |-> "Chat",                    field |-> "Chat"],
       [prefix |-> "connected",            types |-> "Connected",               field |-> "Connected"],
       [prefix |-> "funding",              types |-> "Funding",                 field |-> "Funding"],
       [prefix |-> "instrument",           types |-> "Instrument",              field |-> "Instrument"],
       [prefix |-> "insurance",            types |-> "Insurance",               field |-> "Insurance"],
       [prefix |-> "settlement",           types |-> "Settlement",              field |-> "Settlement"],
       [prefix |-> "publicNotifications",  types |-> "Notifications",           field |-> "Notifications"],
       [prefix |-> "execution",            types |-> "Execution",               field |-> "Execution"],
       [prefix |-> "order",                types |-> "Order",                   field |-> "Order"],
       [prefix |-> "margin",               types |-> "Margin",                  field |-> "Margin"],
       [prefix |-> "position",             types |-> "Position",                field |-> "Position"],
       [prefix |-> "transact",             types |-> "Transact",                field |-> "Transact"],
       [prefix |-> "wallet",               types |-> "Wallet",                  field |-> "Wallet"],
       [prefix |-> "privateNotifications", types |-> "NotificationsForPrivate", field |-> "NotificationsForPrivate"],
       [prefix |-> "affiliate",            types |-> "Affiliate",               field |-> "Affiliate"] >>

\* the cases of the classifying switch, in source order: the prefix tested,
\* the kind assigned to r.Types and the field of r the data is decoded into
Cases ==
    << [prefix |-> "quote",                types |-> "Quote",                   field |-> "Quote"],
       [prefix |-> "orderBookL",           types |-> "OrderbookL",              field |-> "OrderbookL"],
       [prefix |-> "orderBook",            types |-> "Orderbook",               field |-> "Orderbook"],
       [prefix |-> "tradeBin",             types |-> "TradeBin",                field |-> "TradeBin"],
       [prefix |-> "trade",                types |-> "Trade",                   field |-> "Trade"],
       [prefix |-> "announcement",         types |-> "Announcement",            field |-> "Announcement"],
       [prefix |-> "chat",                 types |-> "Chat",                    field |-> "Chat"],
       [prefix |-> "connected",            types |-> "Connected",               field |-> "Connected"],
       [prefix |-> "funding",              types |-> "Funding",                 field |-> "Funding"],
       [prefix |-> "instrument",           types |-> "Instrument",              field |-> "Instrument"],
       [prefix |-> "insurance",            types |-> "Insurance",               field |-> "Insurance"],
       [prefix |-> "settlement",           types |-> "Settlement",              field |-> "Settlement"],
       [prefix |-> "publicNotifications",  types |-> "Notifications",           field |-> "Notifications"],
       [prefix |-> "execution",            types |-> "Execution",               field |-> "Execution"],
       [prefix |-> "order",                types |-> "Order",                   field |-> "Order"],
       [prefix |-> "margin",               types |-> "Margin",                  field |-> "Margin"],
       [prefix |-> "position",             types |-> "Position",                field |-> "Position"],
       [prefix |-> "transact",             types |-> "Transact",                field |-> "Transact"],
       [prefix |-> "wallet",               types |-> "Wallet",                  field |-> "Wallet"],
       [prefix |-> "privateNotifications", types |-> "NotificationsForPrivate", field |-> "NotificationsForPrivate"],
       [prefix |-> "affiliate",            types |-> "Affiliate",               field |-> "Affiliate"] >>

\* the case the switch takes: the first one whose prefix the name starts
\* with, 0 for the default case
Case(name) ==
    LET hits == { i \in 1..Len(Cases) : HasPrefix(name, Cases[i].prefix) }
    IN  IF hits = {} THEN 0 ELSE CHOOSE i \in hits : \A j \in hits : i <= j

\* the enumeration Types, in the order of its const block
Types ==
    << "All", "Announcement", "Chat", "Connected", "Funding", "Instrument", "Insurance",
       "Liquidation", "Orderbook", "OrderbookL", "Notifications", "Quote", "Settlement",
       "Trade", "TradeBin", "Affiliate", "Execution", "Order", "Margin", "Position",
       "NotificationsForPrivate", "Transact", "Wallet", "Undefined", "Error" >>

\* Types.String()
String(t) ==
    CASE t = "Announcement" -> "announcement"
      [] t = "Chat" -> "chat"
      [] t = "Connected" -> "connected"
      [] t = "Funding" -> "funding"
      [] t = "Instrument" -> "instrument"
      [] t = "Insurance" -> "insurance"
      [] t = "Liquidation" -> "liquidation"
      [] t = "Orderbook" -> "orderBook"
      [] t = "OrderbookL" -> "orderBookL"
      [] t = "Notifications" -> "publicNotifications"
      [] t = "Quote" -> "quote"
      [] t = "Settlement" -> "settlement"
      [] t = "Trade" -> "trade"
      [] t = "TradeBin" -> "tradeBin"
      [] t = "Affiliate" -> "affiliate"
      [] t = "Execution" -> "execution"
      [] t = "Order" -> "order"
      [] t = "Margin" -> "margin"
      [] t = "Position" -> "position"
      [] t = "NotificationsForPrivate" -> "privateNotifications"
      [] t = "Transact" -> "transact"
      [] t = "Wallet" -> "wallet"
      [] t = "Error" -> "error"
      [] OTHER -> "undefined"

\* the kind the switch assigns to r.Types
Classify(name) ==
    IF Case(name) = 0 THEN "Undefined" ELSE Cases[Case(name)].types

\* bitmex.XBTUSD and bitmex.ETHUSD, the product codes of package bitmex
XBTUSD == "XBTUSD"
ETHUSD == "ETHUSD"

\* the switch that derives r.ProductCode from the topic name
ProductCode(name) ==
    IF HasSuffix(name, XBTUSD) THEN XBTUSD
    ELSE IF HasSuffix(name, ETHUSD) THEN ETHUSD
    ELSE IF HasSuffix(name, "XRPUSD") THEN "XRPUSD"
    ELSE IF Contains(name, ":") THEN SliceFrom(name, Index(name, ":") + 1)
    ELSE "undefined"

\* ------------------------------------------------------------------ frames
\* a field jsonparser does not find in the frame
NoField == "(absent)"
\* the nil error
NilError == "<nil>"
\* Connect has not returned
NoReturn == "(running)"

\* the zero value of Response (var r Response); Fields is the set of
\* payload fields that hold data
ZeroResponse ==
    [Types |-> "All", ProductCode |-> "", Action |-> "", Fields |-> {}, Results |-> NilError]

\* json.Unmarshal that reports no error
UnmarshalNoError(data) ==
    [err |-> FALSE, filled |-> data \in {"rows", "bad"}]

\* json.Unmarshal(data, &r.<field>): "rows" decodes, "empty" decodes to no
\* element, "bad" fails after it has filled part of the slice
Unmarshal(data) ==
    [err |-> data = "bad", filled |-> data \in {"rows", "bad"}]

\* one pass of the read loop body over a frame, from jsonparser.GetString
\* down to the ProductCode switch: cont says the pass ended in `continue`
ProcessFrame(m) ==
    IF m.table = NoField THEN [cont |-> TRUE, r |-> ZeroResponse]
    ELSE LET r1 == [ZeroResponse EXCEPT !.Action = m.action] IN
    IF m.data = NoField THEN [cont |-> TRUE, r |-> r1]
    ELSE LET c  == Case(m.table)
             u  == Unmarshal(m.data)
             r2 == IF c = 0
                   THEN [r1 EXCEPT !.Types = "Undefined", !.Results = m.raw]
                   ELSE [r1 EXCEPT !.Types = Cases[c].types,
                                   !.Fields = IF u.filled THEN {Cases[c].field} ELSE {}]
         IN  IF c # 0 /\ u.err
             THEN [cont |-> TRUE, r |-> r2]
             ELSE [cont |-> FALSE,
                   r |-> [r2 EXCEPT !.ProductCode = ProductCode(m.table)]]

\* the text of a frame, string(msg): the fields it carries
Raw(table, action, data) ==
    "{" \o (IF table = NoField THEN "" ELSE "table:" \o table \o ",")
        \o (IF action = "" THEN "" ELSE "action:" \o action \o ",")
        \o (IF data = NoField THEN "" ELSE "data:" \o data) \o "}"

\* a frame as the read loop sees it: its text and the table, action and data
\* fields jsonparser finds in it (NoField when absent, action "" when absent)
Frame(table, action, data) ==
    [raw |-> Raw(table, action, data), table |-> table, action |-> action, data |-> data]

\* topic names: every prefix of the switch bare and with a symbol, the
\* overlapping prefixes, topics no case matches, symbols of every shape
Topics ==
    { Cases[i].prefix : i \in 1..Len(Cases) }
        \cup { Cases[i].prefix \o ":XBTUSD" : i \in 1..Len(Cases) }
        \cup { "orderBookL2:XBTUSD", "orderBookL2_25:ETHUSD", "orderBook10:XBTUSD",
               "tradeBin1m:XBTUSD", "tradeBin1h:ADAUSD", "trade:XRPUSD", "trade:ADAUSD",
               "trade:AXRPUSD", "quote:.BXBT", "quote:ETHUSD:x", "order:a:XBTUSD",
               "liquidation", "liquidation:XBTUSD", "orderBookL2", "XBTUSD", "status", "" }

\* the frames of SpecFrame: every topic with every shape of data, and the
\* frame without a table
AllFrames ==
    { Frame(t, "insert", d) : t \in Topics, d \in {NoField, "rows", "empty", "bad"} }
        \cup { Frame(NoField, "", NoField) }

\* the frames a session of Spec and SpecStream reads
Frames ==
    { Frame(NoField, "", NoField),
      Frame("trade:XBTUSD", "partial", NoField),
      Frame("trade:XBTUSD", "insert", "rows"),
      Frame("orderBookL2:ETHUSD", "update", "bad"),
      Frame("liquidation:ETHUSD", "delete", "rows") }

\* the errors ReadMessage returns: read deadline expiry, a dropped
\* connection, and a close frame whose reason text the peer chose
ReadErrors ==
    { "read tcp: i/o timeout",
      "websocket: close 1006 (abnormal closure): unexpected EOF",
      "websocket: close 1000 (normal): context canceled" }

\* the error a failed write on the connection returns
WriteError == "write tcp: broken pipe"

\* context.Canceled.Error() and context.DeadlineExceeded.Error()
Canceled == "context canceled"
DeadlineExceeded == "context deadline exceeded"

\* ------------------------------------------------------------ subscription
\* a Go slice: nil or a sequence of elements
NilSlice == [nil |-> TRUE, elems |-> <<>>]
Slice(elems) == [nil |-> FALSE, elems |-> elems]

\* append(args, x) on a possibly nil slice
AppendSlice(s, x) == Slice(Append(s.elems, x))

\* fmt.Sprintf("%s:%s", channel, symbol)
Sprintf(channel, symbol) == channel \o ":" \o symbol

\* the inner loop over symbols for channel ci, from symbol j on
RECURSIVE SymbolLoop(_, _, _, _)
SymbolLoop(args, channel, syms, j) ==
    IF j > Len(syms) THEN args
    ELSE SymbolLoop(AppendSlice(args, Sprintf(channel, syms[j])), channel, syms, j + 1)

\* the outer loop over channels, from channel ci on
RECURSIVE ChannelLoop(_, _, _, _)
ChannelLoop(args, chans, syms, ci) ==
    IF ci > Len(chans) THEN args
    ELSE ChannelLoop(SymbolLoop(args, chans[ci], syms, 1), chans, syms, ci + 1)

\* the loop of the else branch: the bare channel names
RECURSIVE BareLoop(_, _, _)
BareLoop(args, chans, ci) ==
    IF ci > Len(chans) THEN args
    ELSE BareLoop(AppendSlice(args, chans[ci]), chans, ci + 1)

\* the requests with the loops nested the other way round: symbol-major
BuildRequestsSymbolMajor(chans, syms) ==
    IF ~syms.nil
    THEN << [Op |-> "subscribe",
             Args |-> IF chans = <<>> \/ syms.elems = <<>> THEN NilSlice
                      ELSE Slice([k \in 1..(Len(chans) * Len(syms.elems)) |->
                                   Sprintf(chans[((k - 1) % Len(chans)) + 1],
                                           syms.elems[((k - 1) \div Len(chans)) + 1])])] >>
    ELSE << [Op |-> "subscribe", Args |-> BareLoop(NilSlice, chans, 1)] >>

\* the requests subscribe builds before it writes them
BuildRequests(chans, syms) ==
    IF ~syms.nil
    THEN << [Op |-> "subscribe", Args |-> ChannelLoop(NilSlice, chans, syms.elems, 1)] >>
    ELSE << [Op |-> "subscribe", Args |-> BareLoop(NilSlice, chans, 1)] >>

\* the calls of Connect: a public session on trade for two symbols and a
\* private session, with a credential, on order without symbols
Inputs ==
    { [Auth |-> FALSE, channels |-> <<"trade">>, symbols |-> Slice(<<"XBTUSD", "ETHUSD">>)],
      [Auth |-> TRUE,  channels |-> <<"order">>, symbols |-> NilSlice] }

\* -------------------------------------------------------------- order book
\* JSON values as json.Unmarshal stores them in interface{}: a number is a
\* float64, anything else is not
Num(n) == [float |-> TRUE, val |-> n]
Str == [float |-> FALSE, val |-> 0]

\* a raw row: an array of values, or a value that is no array
Row(elems) == [array |-> TRUE, elems |-> elems]
NotArray == [array |-> FALSE, elems |-> <<>>]

\* the value of in["asks"] or in["bids"]: an array of raw rows or not
Body(rows) == [array |-> TRUE, rows |-> rows]
NoBody == [array |-> FALSE, rows |-> <<>>]

ZeroTime == "0001-01-01T00:00:00Z"
ZeroBook == [Price |-> 0, Size |-> 0]
ZeroOrderBook == [Symbol |-> "", Timestamp |-> ZeroTime, Bids |-> NilSlice, Asks |-> NilSlice]

\* bytes that are no JSON object
NoBytes == [json |-> FALSE, symbol |-> NoField, timestamp |-> NoField,
            asks |-> NoBody, bids |-> NoBody]

bookname == << "asks", "bids" >>

\* book[k].(float64) with the ok result dropped: zero when it is no number
Float64(e) == IF e.float THEN e.val ELSE 0

\* books, as the row loop leaves it: one Book per raw row, zero where the
\* loop continued
Books(body) ==
    [i \in 1..Len(body) |->
        IF ~body[i].array THEN ZeroBook
        ELSE IF Len(body[i].elems) # 2 THEN ZeroBook
        ELSE [Price |-> Float64(body[i].elems[1]), Size |-> Float64(body[i].elems[2])]]

\* time.Parse(time.RFC3339Nano, ...) with the error dropped
ParseTime(t) == IF HasSuffix(t, "Z") /\ Len(t) = Len(ZeroTime) THEN t ELSE ZeroTime

\* fmt.Sprintf("%v", in[key])
Sprintv(v) == IF v = NoField THEN NilError ELSE v

\* the loop over bookname from index i: the OrderBook and the error returned
RECURSIVE BookLoop(_, _, _)
BookLoop(o, in, i) ==
    IF i > Len(bookname) THEN [p |-> o, err |-> NilError]
    ELSE IF ~in[bookname[i]].array THEN [p |-> o, err |-> "data has not type"]
    ELSE LET books == Slice(Books(in[bookname[i]].rows))
         IN  BookLoop(IF bookname[i] = "ask"
                      THEN [o EXCEPT !.Asks = books]
                      ELSE [o EXCEPT !.Bids = books], in, i + 1)

\* OrderBook.UnmarshalJSON on the OrderBook o
UnmarshalJSON(o, bytes) ==
    IF ~bytes.json THEN [p |-> o, err |-> "unexpected end of JSON input"]
    ELSE BookLoop([o EXCEPT !.Symbol = Sprintv(bytes.symbol),
                            !.Timestamp = ParseTime(Sprintv(bytes.timestamp))],
                  bytes, 1)

\* the raw rows the messages are made of
RawRows ==
    { Row(<< Num(7024), Num(200430) >>), Row(<< Num(7025), Num(100) >>),
      Row(<< Num(7024), Num(200430), Num(1) >>), Row(<< Str, Num(100) >>),
      NotArray }

\* ------------------------------------------------------------------- state
VARIABLES
    pc,         \* where Connect is
    p,          \* what New returned: "nil" or "client" ("unset" before)
    conn,       \* p.conn: "none", "open" or "closed"
    Auth,       \* the context carries a credential (p.Auth != nil)
    channels,   \* Connect's channels argument
    symbols,    \* Connect's symbols argument
    requests,   \* the requests subscribe returned
    deferred,   \* Connect's stack of deferred calls
    ctx,        \* ctx.Err(): NilError while the context is live
    keeper,     \* the ping goroutine: "off", "waiting", "writing", "stopped"
    wire,       \* every write issued on the connection, and its Close
    msg,        \* the frame ReadMessage returned last
    r,          \* the Response of the current pass of the read loop
    reads,      \* the frames read so far
    pushed,     \* every Response sent on ch so far
    nrecv,      \* how many of them the consumer has received
    err,        \* the error the read loop returned to eg.Wait
    ret,        \* Connect's return value
    ui,         \* the index of unsubscribe's loop
    overlap,    \* the keeper and unsubscribe are writing at the same time
    panicking,  \* a panic is unwinding Connect
    b,          \* the bytes handed to OrderBook.UnmarshalJSON, as parsed JSON
    ob,         \* the OrderBook UnmarshalJSON fills
    obret       \* UnmarshalJSON's return value

vars == << pc, p, conn, Auth, channels, symbols, requests, deferred, ctx, keeper,
           wire, msg, r, reads, pushed, nrecv, err, ret, ui, overlap, panicking,
           b, ob, obret >>

\* the content of the buffered channel ch
ch == SubSeq(pushed, nrecv + 1, Len(pushed))

\* <-ctx.Done() is ready
Done == ctx # NilError

\* the ping writes issued so far
Pings == Len(SelectSeq(wire, LAMBDA w : w.op = "ping"))

Init ==
    /\ pc = "New"
    /\ p = "unset"
    /\ conn = "none"
    /\ \E in \in Inputs : Auth = in.Auth /\ channels = in.channels /\ symbols = in.symbols
    /\ requests = <<>>
    /\ deferred = <<>>
    /\ ctx = NilError
    /\ keeper = "off"
    /\ wire = <<>>
    /\ msg = Frame(NoField, "", NoField)
    /\ r = ZeroResponse
    /\ reads = <<>>
    /\ pushed = <<>>
    /\ nrecv = 0
    /\ err = NilError
    /\ ret = NoReturn
    /\ ui = 1
    /\ overlap = FALSE
    /\ panicking = FALSE
    /\ b = NoBytes
    /\ ob = ZeroOrderBook
    /\ obret = NoReturn

\* ----------------------------------------------------------------- startup
\* an unrecovered panic has ended the process
Crashed == pc = "crashed" \/ keeper = "panicked"

\* a write on the connection as the log records it
Written(op, args, ok) == [op |-> op, args |-> args, ok |-> ok]

\* a defer statement that runs the call before the ones deferred earlier
DeferFirst(stack, call) == << call >> \o stack

\* a defer statement: the call goes on top of the stack of deferred calls
Defer(stack, call) == Append(stack, call)

\* a return statement of Connect: the value is fixed, then the deferred
\* calls run, last registered first
Return(value) ==
    /\ ret' = value
    /\ pc' = "defer"

\* New: dial the endpoint; nil when the dial fails
New(dialed) ==
    /\ ~Crashed
    /\ pc = "New"
    /\ IF dialed
       THEN p' = "client" /\ conn' = "open"
       ELSE p' = "nil" /\ conn' = conn
    /\ pc' = "Connect"
    /\ deferred' = Defer(<<>>, "Close")
    /\ UNCHANGED << b, ob, obret, Auth, channels, symbols, requests, ctx, keeper, wire, msg, r,
                    reads, pushed, nrecv, err, ret, ui, overlap, panicking >>

\* Connect on a nil client: p.Auth dereferences nil and panics, the
\* deferred p.Close() dereferences nil again; nothing recovers
NilClient ==
    /\ ~Crashed
    /\ pc = "Connect"
    /\ p = "nil"
    /\ pc' = "crashed"
    /\ panicking' = TRUE
    /\ deferred' = <<>>
    /\ UNCHANGED << b, ob, obret, p, conn, Auth, channels, symbols, requests, ctx, keeper, wire,
                    msg, r, reads, pushed, nrecv, err, ret, ui, overlap >>

\* signture that writes the request again after a failed write
signtureRetry(ok) ==
    /\ ~Crashed
    /\ pc = "Connect"
    /\ p = "client"
    /\ Auth
    /\ wire' = Append(wire, Written("authKeyExpires", Slice(<< "key", "expire", "sign" >>), ok))
    /\ pc' = IF ok THEN "subscribe" ELSE "Connect"
    /\ UNCHANGED << b, ob, obret, p, conn, Auth, channels, symbols, requests, deferred, ctx, keeper,
                    msg, r, reads, pushed, nrecv, err, ret, ui, overlap, panicking >>

\* signture whose error Connect does not test
signtureIgnoreError(ok) ==
    /\ ~Crashed
    /\ pc = "Connect"
    /\ p = "client"
    /\ Auth
    /\ wire' = Append(wire, Written("authKeyExpires", Slice(<< "key", "expire", "sign" >>), ok))
    /\ pc' = "subscribe"
    /\ UNCHANGED << b, ob, obret, p, conn, Auth, channels, symbols, requests, deferred, ctx, keeper,
                    msg, r, reads, pushed, nrecv, err, ret, ui, overlap, panicking >>

\* signture: write the authKeyExpires request; Connect returns its error
signture(ok) ==
    /\ ~Crashed
    /\ pc = "Connect"
    /\ p = "client"
    /\ Auth
    /\ wire' = Append(wire, Written("authKeyExpires", Slice(<< "key", "expire", "sign" >>), ok))
    /\ IF ok
       THEN pc' = "subscribe" /\ ret' = ret
       ELSE Return(WriteError)
    /\ UNCHANGED << b, ob, obret, p, conn, Auth, channels, symbols, requests, deferred, ctx, keeper,
                    msg, r, reads, pushed, nrecv, err, ui, overlap, panicking >>

\* subscribe: build the request, write it; on success Connect defers
\* unsubscribe, starts the ping goroutine and enters the read loop
subscribe(ok) ==
    /\ ~Crashed
    /\ \/ pc = "subscribe"
       \/ pc = "Connect" /\ p = "client" /\ ~Auth
    /\ LET built == BuildRequests(channels, symbols) IN
        /\ wire' = Append(wire, Written(built[1].Op, built[1].Args, ok))
        /\ IF ok
           THEN /\ requests' = built
                /\ deferred' = Defer(deferred, "unsubscribe")
                /\ keeper' = "waiting"
                /\ pc' = "read"
                /\ ret' = ret
           ELSE /\ Return("disconnect " \o WriteError)
                /\ UNCHANGED << requests, deferred, keeper >>
    /\ UNCHANGED << b, ob, obret, p, conn, Auth, channels, symbols, ctx, msg, r, reads, pushed,
                    nrecv, err, ui, overlap, panicking >>

\* --------------------------------------------------------------- read loop
\* ReadMessage returns a frame
ReadMessage(from, max) ==
    /\ ~Crashed
    /\ pc = "read"
    /\ Len(reads) < max
    /\ \E f \in from :
        /\ msg' = f
        /\ reads' = Append(reads, f)
    /\ pc' = "process"
    /\ UNCHANGED << b, ob, obret, p, conn, Auth, channels, symbols, requests, deferred, ctx, keeper,
                    wire, r, pushed, nrecv, err, ret, ui, overlap, panicking >>

\* ReadMessage returns an error: the loop returns it wrapped
ReadError ==
    /\ ~Crashed
    /\ pc = "read"
    /\ \E e \in ReadErrors : err' = "can't receive error: " \o e
    /\ pc' = "wait"
    /\ UNCHANGED << b, ob, obret, p, conn, Auth, channels, symbols, requests, deferred, ctx, keeper,
                    wire, msg, r, reads, pushed, nrecv, ret, ui, overlap, panicking >>

\* the loop body from `var r Response` to the ProductCode switch
Process ==
    /\ ~Crashed
    /\ pc = "process"
    /\ LET res == ProcessFrame(msg) IN
        IF res.cont
        THEN pc' = "read" /\ r' = ZeroResponse
        ELSE pc' = "select" /\ r' = res.r
    /\ UNCHANGED << b, ob, obret, p, conn, Auth, channels, symbols, requests, deferred, ctx, keeper,
                    wire, msg, reads, pushed, nrecv, err, ret, ui, overlap, panicking >>

\* a loop without the select: the frame is sent whatever the context says
SelectBlind ==
    /\ ~Crashed
    /\ pc = "select"
    /\ err' = err
    /\ pc' = "send"
    /\ UNCHANGED << b, ob, obret, p, conn, Auth, channels, symbols, requests, deferred, ctx, keeper,
                    wire, msg, r, reads, pushed, nrecv, ret, ui, overlap, panicking >>

\* select { case <-ctx.Done(): return ctx.Err(); default: }
Select ==
    /\ ~Crashed
    /\ pc = "select"
    /\ IF Done
       THEN err' = ctx /\ pc' = "wait"
       ELSE err' = err /\ pc' = "send"
    /\ UNCHANGED << b, ob, obret, p, conn, Auth, channels, symbols, requests, deferred, ctx, keeper,
                    wire, msg, r, reads, pushed, nrecv, ret, ui, overlap, panicking >>

\* a send that gives up when the buffer is full (select with default)
SendOrDrop ==
    /\ ~Crashed
    /\ pc = "send"
    /\ pushed' = IF Len(ch) < ChanCap THEN Append(pushed, r) ELSE pushed
    /\ r' = ZeroResponse
    /\ pc' = "read"
    /\ UNCHANGED << b, ob, obret, p, conn, Auth, channels, symbols, requests, deferred, ctx, keeper,
                    wire, msg, reads, nrecv, err, ret, ui, overlap, panicking >>

\* ch <- r: blocks while the buffer is full
Send ==
    /\ ~Crashed
    /\ pc = "send"
    /\ Len(ch) < ChanCap
    /\ pushed' = Append(pushed, r)
    /\ r' = ZeroResponse
    /\ pc' = "read"
    /\ UNCHANGED << b, ob, obret, p, conn, Auth, channels, symbols, requests, deferred, ctx, keeper,
                    wire, msg, reads, nrecv, err, ret, ui, overlap, panicking >>

\* the value Connect returns for the error eg.Wait() hands it
ConnectReturn(e) ==
    IF e # NilError /\ Contains(e, Canceled)
    THEN "context stop outside " \o e
    ELSE NilError

\* eg.Wait() returns the loop's error and Connect returns
Wait ==
    /\ ~Crashed
    /\ pc = "wait"
    /\ Return(ConnectReturn(err))
    /\ UNCHANGED << b, ob, obret, p, conn, Auth, channels, symbols, requests, deferred, ctx, keeper,
                    wire, msg, r, reads, pushed, nrecv, err, ui, overlap, panicking >>

\* ---------------------------------------------------------------- teardown
\* the deferred call that runs next
Top == deferred[Len(deferred)]
Pop == SubSeq(deferred, 1, Len(deferred) - 1)

\* the outcomes of a write the connection may report: a write that
\* overlaps another goroutine's write may also panic (the connection
\* supports one concurrent writer)
WriteOutcomes ==
    (IF conn = "open" THEN {"ok"} ELSE {}) \cup {"fail"}
        \cup (IF overlap THEN {"panic"} ELSE {})

\* unsubscribe that builds a fresh request instead of reusing the one sent
unsubscribeFresh ==
    /\ ~Crashed
    /\ pc = "defer"
    /\ deferred # <<>>
    /\ Top = "unsubscribe"
    /\ ui <= Len(requests)
    /\ requests' = [requests EXCEPT ![ui] = [Op |-> "unsubscribe", Args |-> NilSlice]]
    /\ overlap' = (keeper = "writing")
    /\ pc' = "unsubWrite"
    /\ UNCHANGED << b, ob, obret, p, conn, Auth, channels, symbols, deferred, ctx, keeper, wire, msg,
                    r, reads, pushed, nrecv, err, ret, ui, panicking >>

\* unsubscribe, loop body: flip the request's Op and start writing it
unsubscribe ==
    /\ ~Crashed
    /\ pc = "defer"
    /\ deferred # <<>>
    /\ Top = "unsubscribe"
    /\ ui <= Len(requests)
    /\ requests' = [requests EXCEPT ![ui].Op = "unsubscribe"]
    /\ overlap' = (keeper = "writing")
    /\ pc' = "unsubWrite"
    /\ UNCHANGED << b, ob, obret, p, conn, Auth, channels, symbols, deferred, ctx, keeper, wire, msg,
                    r, reads, pushed, nrecv, err, ret, ui, panicking >>

\* unsubscribe, the write returns: an error is logged only; after the last
\* request the deferred call is over
unsubscribed(outcome) ==
    /\ ~Crashed
    /\ pc = "unsubWrite"
    /\ outcome \in WriteOutcomes
    /\ wire' = Append(wire, Written(requests[ui].Op, requests[ui].Args, outcome = "ok"))
    /\ ui' = ui + 1
    /\ panicking' = (outcome = "panic")
    /\ deferred' = IF outcome = "panic" \/ ui + 1 > Len(requests) THEN Pop ELSE deferred
    /\ overlap' = (overlap /\ keeper = "writing")
    /\ pc' = "defer"
    /\ UNCHANGED << b, ob, obret, p, conn, Auth, channels, symbols, requests, ctx, keeper, msg, r,
                    reads, pushed, nrecv, err, ret >>

\* Close with the nil test inverted: it reports "connection no longer
\* exists" for a live connection and leaves it open
CloseInverted ==
    /\ ~Crashed
    /\ pc = "defer"
    /\ deferred # <<>>
    /\ Top = "Close"
    /\ deferred' = Pop
    /\ UNCHANGED << b, ob, obret, pc, p, conn, Auth, channels, symbols, requests, ctx, keeper, wire, msg,
                    r, reads, pushed, nrecv, err, ret, ui, overlap, panicking >>

\* Close: p.conn.Close(); its error is logged and dropped by the defer
Close ==
    /\ ~Crashed
    /\ pc = "defer"
    /\ deferred # <<>>
    /\ Top = "Close"
    /\ conn' = "closed"
    /\ wire' = Append(wire, Written("Close", NilSlice, TRUE))
    /\ deferred' = Pop
    /\ UNCHANGED << b, ob, obret, pc, p, Auth, channels, symbols, requests, ctx, keeper, msg, r, reads,
                    pushed, nrecv, err, ret, ui, overlap, panicking >>

\* every deferred call has run: Connect hands ret to its caller, or the
\* panic that unwound it ends the process
Returned ==
    /\ ~Crashed
    /\ pc = "defer"
    /\ deferred = <<>>
    /\ pc' = IF panicking THEN "crashed" ELSE "done"
    /\ UNCHANGED << b, ob, obret, p, conn, Auth, channels, symbols, requests, deferred, ctx, keeper,
                    wire, msg, r, reads, pushed, nrecv, err, ret, ui, overlap, panicking >>

\* ------------------------------------------------------------------ keeper
\* ping, case <-ticker.C: set the write deadline and start writing "ping";
\* the ticker fires at most max times
pingTickWithin(max) ==
    /\ ~Crashed
    /\ keeper = "waiting"
    /\ Pings < max
    /\ keeper' = "writing"
    /\ overlap' = (pc = "unsubWrite")
    /\ UNCHANGED << b, ob, obret, pc, p, conn, Auth, channels, symbols, requests, deferred, ctx, wire,
                    msg, r, reads, pushed, nrecv, err, ret, ui, panicking >>

pingTick == pingTickWithin(MaxPings)

\* ping that returns on a failed write instead of continuing
pingedStops(outcome) ==
    /\ ~Crashed
    /\ keeper = "writing"
    /\ outcome \in WriteOutcomes
    /\ wire' = Append(wire, Written("ping", NilSlice, outcome = "ok"))
    /\ keeper' = CASE outcome = "panic" -> "panicked"
                  [] outcome = "fail" -> "stopped"
                  [] OTHER -> "waiting"
    /\ overlap' = (overlap /\ pc = "unsubWrite")
    /\ UNCHANGED << b, ob, obret, pc, p, conn, Auth, channels, symbols, requests, deferred, ctx, msg,
                    r, reads, pushed, nrecv, err, ret, ui, panicking >>

\* ping, the write returns: on an error the loop continues; a panic in
\* this goroutine ends the process
pinged(outcome) ==
    /\ ~Crashed
    /\ keeper = "writing"
    /\ outcome \in WriteOutcomes
    /\ wire' = Append(wire, Written("ping", NilSlice, outcome = "ok"))
    /\ keeper' = IF outcome = "panic" THEN "panicked" ELSE "waiting"
    /\ overlap' = (overlap /\ pc = "unsubWrite")
    /\ UNCHANGED << b, ob, obret, pc, p, conn, Auth, channels, symbols, requests, deferred, ctx, msg,
                    r, reads, pushed, nrecv, err, ret, ui, panicking >>

\* ping, case <-ctx.Done(): return
pingDone ==
    /\ ~Crashed
    /\ keeper = "waiting"
    /\ Done
    /\ keeper' = "stopped"
    /\ UNCHANGED << b, ob, obret, pc, p, conn, Auth, channels, symbols, requests, deferred, ctx, wire,
                    msg, r, reads, pushed, nrecv, err, ret, ui, overlap, panicking >>

\* ------------------------------------------------------------- environment
\* the caller cancels the context
Cancel ==
    /\ ctx = NilError
    /\ ctx' = Canceled
    /\ UNCHANGED << b, ob, obret, pc, p, conn, Auth, channels, symbols, requests, deferred, keeper,
                    wire, msg, r, reads, pushed, nrecv, err, ret, ui, overlap, panicking >>

\* the context's deadline passes
Expire ==
    /\ ctx = NilError
    /\ ctx' = DeadlineExceeded
    /\ UNCHANGED << b, ob, obret, pc, p, conn, Auth, channels, symbols, requests, deferred, keeper,
                    wire, msg, r, reads, pushed, nrecv, err, ret, ui, overlap, panicking >>

\* the consumer receives from ch
Recv ==
    /\ nrecv < Len(pushed)
    /\ nrecv' = nrecv + 1
    /\ UNCHANGED << b, ob, obret, pc, p, conn, Auth, channels, symbols, requests, deferred, ctx, keeper,
                    wire, msg, r, reads, pushed, err, ret, ui, overlap, panicking >>

\* -------------------------------------------------------------- order book
\* json.Unmarshal hands the bytes to OrderBook.UnmarshalJSON
UnmarshalOrderBook ==
    /\ obret = NoReturn
    /\ LET res == UnmarshalJSON(ob, b)
       IN  ob' = res.p /\ obret' = res.err
    /\ UNCHANGED << b, pc, p, conn, Auth, channels, symbols, requests, deferred, ctx,
                    keeper, wire, msg, r, reads, pushed, nrecv, err, ret, ui, overlap,
                    panicking >>

\* ----------------------------------------------------------- specification
Next ==
    \/ \E dialed \in BOOLEAN : New(dialed)
    \/ NilClient
    \/ \E ok \in BOOLEAN : signture(ok)
    \/ \E ok \in BOOLEAN : subscribe(ok)
    \/ ReadMessage(Frames, MaxSessionFrames)
    \/ ReadError
    \/ Process
    \/ Select
    \/ Send
    \/ Wait
    \/ unsubscribe
    \/ \E o \in {"ok", "fail", "panic"} : unsubscribed(o)
    \/ Close
    \/ Returned
    \/ pingTick
    \/ \E o \in {"ok", "fail", "panic"} : pinged(o)
    \/ pingDone
    \/ Cancel
    \/ Expire
    \/ Recv

Spec == Init /\ [][Next]_vars

\* a session that has subscribed and is about to read its first frame
InitFrame ==
    /\ pc = "read"
    /\ p = "client"
    /\ conn = "open"
    /\ Auth = FALSE
    /\ channels = <<"trade">>
    /\ symbols = Slice(<<"XBTUSD", "ETHUSD">>)
    /\ requests = BuildRequests(channels, symbols)
    /\ deferred = Defer(Defer(<<>>, "Close"), "unsubscribe")
    /\ ctx = NilError
    /\ keeper = "waiting"
    /\ wire = << Written(requests[1].Op, requests[1].Args, TRUE) >>
    /\ msg = Frame(NoField, "", NoField)
    /\ r = ZeroResponse
    /\ reads = <<>>
    /\ pushed = <<>>
    /\ nrecv = 0
    /\ err = NilError
    /\ ret = NoReturn
    /\ ui = 1
    /\ overlap = FALSE
    /\ panicking = FALSE
    /\ b = NoBytes
    /\ ob = ZeroOrderBook
    /\ obret = NoReturn

\* one pass of the read loop over any frame
NextFrame ==
    \/ ReadMessage(AllFrames, MaxFramesOne)
    \/ Process
    \/ Select
    \/ Send
    \/ Cancel
    \/ Recv

SpecFrame == InitFrame /\ [][NextFrame]_vars

\* the read loop alone, over several frames, until it returns
NextStream ==
    \/ ReadMessage(Frames, MaxFrames)
    \/ ReadError
    \/ Process
    \/ Select
    \/ Send
    \/ Cancel
    \/ Expire
    \/ Recv

SpecStream == InitFrame /\ [][NextStream]_vars

\* the sequences over S of length at most n
Seqs(S, n) == UNION { [1..k -> S] : k \in 0..n }

\* a Connect whose dial succeeded, called with any channels and symbols
InitSubscribe ==
    /\ pc = "Connect"
    /\ p = "client"
    /\ conn = "open"
    /\ Auth \in BOOLEAN
    /\ channels \in Seqs({"trade", "quote"}, MaxChannels)
    /\ symbols \in {NilSlice} \cup { Slice(e) : e \in Seqs({"XBTUSD", "ETHUSD"}, MaxSymbols) }
    /\ requests = <<>>
    /\ deferred = Defer(<<>>, "Close")
    /\ ctx = NilError
    /\ keeper = "off"
    /\ wire = <<>>
    /\ msg = Frame(NoField, "", NoField)
    /\ r = ZeroResponse
    /\ reads = <<>>
    /\ pushed = <<>>
    /\ nrecv = 0
    /\ err = NilError
    /\ ret = NoReturn
    /\ ui = 1
    /\ overlap = FALSE
    /\ panicking = FALSE
    /\ b = NoBytes
    /\ ob = ZeroOrderBook
    /\ obret = NoReturn

\* startup and teardown of a session whose first read fails
NextSubscribe ==
    \/ \E ok \in BOOLEAN : signture(ok)
    \/ \E ok \in BOOLEAN : subscribe(ok)
    \/ ReadError
    \/ Wait
    \/ unsubscribe
    \/ \E o \in {"ok", "fail", "panic"} : unsubscribed(o)
    \/ Close
    \/ Returned

SpecSubscribe == InitSubscribe /\ [][NextSubscribe]_vars

\* a streaming session and its keeper, the ticker firing several times
NextKeeper ==
    \/ pingTickWithin(MaxKeeperPings)
    \/ \E o \in {"ok", "fail", "panic"} : pinged(o)
    \/ pingDone
    \/ ReadMessage(Frames, MaxSessionFrames)
    \/ ReadError
    \/ Process
    \/ Select
    \/ Send
    \/ Wait
    \/ unsubscribe
    \/ \E o \in {"ok", "fail", "panic"} : unsubscribed(o)
    \/ Close
    \/ Returned
    \/ Cancel
    \/ Recv

SpecKeeper == InitFrame /\ [][NextKeeper]_vars

\* the read loop and the teardown of a session, the keeper between ticks
NextLive ==
    \/ ReadMessage(Frames, MaxFrames)
    \/ ReadError
    \/ Process
    \/ Select
    \/ Send
    \/ Wait
    \/ unsubscribe
    \/ \E o \in {"ok", "fail", "panic"} : unsubscribed(o)
    \/ Close
    \/ Returned
    \/ Cancel
    \/ Recv

\* a step of the goroutine that runs Connect: a blocked read returns a frame
\* or an error, a send goes through when the buffer has room
ConnectStep ==
    \/ ReadMessage(Frames, MaxFrames)
    \/ ReadError
    \/ Process
    \/ Select
    \/ Send
    \/ Wait
    \/ unsubscribe
    \/ \E o \in {"ok", "fail", "panic"} : unsubscribed(o)
    \/ Close
    \/ Returned

\* the goroutine is scheduled whenever it can step and every blocked read
\* ends; the consumer of ch and the caller are under no obligation
SpecLive == InitFrame /\ [][NextLive]_vars /\ WF_vars(ConnectStep)

\* another Connect of the same process, with its own Client, connection and
\* requests, runs for as long as no panic has ended the process
PeerRunning == ~Crashed

\* the order book messages: any rows on either side, or no JSON object
OrderBookBytes ==
    {NoBytes} \cup
    [json : {TRUE},
     symbol : {"XBTUSD", NoField},
     timestamp : {"2018-08-01T00:00:00Z", NoField},
     asks : {NoBody} \cup { Body(rows) : rows \in Seqs(RawRows, MaxRows) },
     bids : {NoBody} \cup { Body(rows) : rows \in Seqs(RawRows, MaxRows) }]

\* the decode of one order book message into a zero OrderBook
InitOrderBook ==
    /\ pc = "New"
    /\ p = "unset"
    /\ conn = "none"
    /\ Auth = FALSE
    /\ channels = <<>>
    /\ symbols = NilSlice
    /\ requests = <<>>
    /\ deferred = <<>>
    /\ ctx = NilError
    /\ keeper = "off"
    /\ wire = <<>>
    /\ msg = Frame(NoField, "", NoField)
    /\ r = ZeroResponse
    /\ reads = <<>>
    /\ pushed = <<>>
    /\ nrecv = 0
    /\ err = NilError
    /\ ret = NoReturn
    /\ ui = 1
    /\ overlap = FALSE
    /\ panicking = FALSE
    /\ b \in OrderBookBytes
    /\ ob = ZeroOrderBook
    /\ obret = NoReturn

NextOrderBook == UnmarshalOrderBook

SpecOrderBook == InitOrderBook /\ [][NextOrderBook]_vars

\* ================================================================== claims
\* the positions in the log of the writes of one operation
Ops(op) == { i \in 1..Len(wire) : wire[i].op = op }

\* the loop ended on a failed read
ReadFailed == HasPrefix(err, "can't receive error: ")

\* the loop ended because the select saw the context done
SawDone == err \in {Canceled, DeadlineExceeded}

\* C1: whenever a read fails in the Streaming state, Connect returns a
\* non-nil error to its caller.
C1_ReadErrorReturned ==
    (pc = "done" /\ ReadFailed) => ret # NilError

\* the values Connect returns when it ends for another reason than an
\* observed cancellation
OtherReturns ==
    { WriteError, "disconnect " \o WriteError }
        \cup { ConnectReturn("can't receive error: " \o e) : e \in ReadErrors }

\* C2: whenever the read loop saw the context done, for whatever reason it
\* ended, Connect has unsubscribed and then closed, and returns a non-nil
\* error that no other outcome returns.
C2_CancelledDistinct ==
    (pc = "done" /\ SawDone) =>
        /\ ret # NilError
        /\ ret \notin OtherReturns
        /\ \E u \in Ops("unsubscribe") : \E c \in Ops("Close") : u < c

\* C3: in a session that reached Streaming, teardown writes the unsubscribe
\* exactly once for each subscribe request sent, never after the connection
\* is closed, whether a cancellation or a read error ended the loop.
C3_UnsubscribeOnceBeforeClose ==
    /\ \A u \in Ops("unsubscribe") : \A c \in Ops("Close") : u < c
    /\ \A s \in Ops("subscribe") :
          Cardinality({ u \in Ops("unsubscribe") : wire[u].args = wire[s].args }) <= 1
    /\ (requests # <<>> /\ conn = "closed") =>
          \A s \in Ops("subscribe") :
              Cardinality({ u \in Ops("unsubscribe") :
                              u > s /\ wire[u].args = wire[s].args }) = 1

\* a session that streamed, ended on a read error and is closed
C3_Witness ==
    /\ conn = "closed"
    /\ ReadFailed
    /\ Ops("unsubscribe") # {}

\* C4: once the connection was opened, every return of Connect has closed
\* it, also when the unsubscribe write failed during teardown.
C4_ClosedOnReturn ==
    pc = "done" => (conn = "closed" /\ Ops("Close") # {})

\* Connect has returned after an unsubscribe write that failed
C4_Witness ==
    /\ pc = "done"
    /\ \E u \in Ops("unsubscribe") : ~wire[u].ok

\* C5: when the connection cannot be established, Connect returns an error
\* at once: nothing is written, no keeper runs, nothing is read or pushed.
C5_DialFailureReturned ==
    (p = "nil" /\ pc # "Connect") =>
        /\ pc \in {"defer", "done"}
        /\ ret \notin {NoReturn, NilError}
        /\ wire = <<>>
        /\ keeper = "off"
        /\ reads = <<>>
        /\ pushed = <<>>

\* the kind of the longest prefix of the switch the name starts with
LongestPrefixKind(name) ==
    LET hits == { i \in 1..Len(Cases) : HasPrefix(name, Cases[i].prefix) }
    IN  IF hits = {} THEN "Undefined"
        ELSE Cases[CHOOSE i \in hits :
                     \A j \in hits : Len(Cases[j].prefix) <= Len(Cases[i].prefix)].types

\* a frame that carries table and data and either decodes or has a topic no
\* case matches
Eligible(m) ==
    /\ m.table # NoField
    /\ m.data # NoField
    /\ \/ m.data \in {"rows", "empty"}
       \/ \A i \in 1..Len(Cases) : ~HasPrefix(m.table, Cases[i].prefix)

\* the frames read so far that are to be pushed
Elig == SelectSeq(reads, Eligible)

\* C6: every eligible frame processed while the context is not done is
\* pushed exactly once, in the order read; while the channel is full the
\* loop stays blocked on the push and reads nothing.
C6_NoDropNoReorder ==
    /\ [](/\ Len(pushed) <= Len(Elig)
          /\ \A i \in 1..Len(pushed) :
                /\ i <= Len(Elig)
                /\ pushed[i].Action = Elig[i].action
                /\ pushed[i].Types = LongestPrefixKind(Elig[i].table)
          /\ Len(Elig) - Len(pushed) <= 1
          /\ Len(Elig) - Len(pushed) = 1 =>
                /\ Eligible(reads[Len(reads)])
                /\ pc \in {"process", "select", "send"} \/ SawDone)
    /\ [][(pc = "send" /\ Len(ch) = ChanCap) =>
              (pc' = "send" /\ reads' = reads /\ pushed' = pushed)]_vars

\* the loop is blocked on the push of a second event, the channel full
C6_Witness ==
    /\ pc = "send"
    /\ Len(ch) = ChanCap
    /\ Len(Elig) = 2
    /\ Elig[1] # Elig[2]

\* a frame without table, without data, or whose data does not decode into
\* the payload of its kind
Malformed(m) ==
    \/ m.table = NoField
    \/ m.data = NoField
    \/ m.data = "bad" /\ \E i \in 1..Len(Cases) : HasPrefix(m.table, Cases[i].prefix)

\* C7: processing a malformed frame pushes nothing and does not end the
\* loop: the next thing the loop does is read, and Connect does not return.
C7_MalformedSkipped ==
    [][(pc = "process" /\ Malformed(msg)) =>
          /\ pc' \in {"process", "read"}
          /\ pushed' = pushed
          /\ err' = err
          /\ ret' = ret]_vars

\* the loop is back at the read after a frame whose data did not decode
C7_Witness ==
    /\ pc = "read"
    /\ reads # <<>>
    /\ reads[Len(reads)].data = "bad"
    /\ Malformed(reads[Len(reads)])
    /\ pushed = <<>>

\* the kinds that have a payload field in Response
Kinds == { Cases[i].types : i \in 1..Len(Cases) }

\* the discriminant of an event agrees with what it carries
Agrees(e, m) ==
    IF e.Types = "Undefined"
    THEN e.Fields = {} /\ e.Results = m.raw
    ELSE e.Types \in Kinds /\ e.Fields \subseteq {e.Types} /\ e.Results = NilError

\* C8: every event on the channel has a discriminant that agrees with its
\* populated field: a known kind carries no other payload and no error
\* detail, an Undefined event no payload and the raw text of its frame.
C8_DiscriminantAgrees ==
    \A i \in 1..Len(pushed) : i <= Len(Elig) /\ Agrees(pushed[i], Elig[i])

\* a tradeBin event with its payload is on the channel
C8_Witness ==
    /\ pushed # <<>>
    /\ pushed[1].Types = "TradeBin"
    /\ pushed[1].Fields = {"TradeBin"}

\* C9: the classifier assigns the kind of the longest known prefix of the
\* topic: orderBookL is the Level-2 kind, orderBook is never the order
\* kind, tradeBin is the trade-bin kind and never the trade kind.
C9_LongestPrefix ==
    pc \in {"select", "send"} =>
        /\ r.Types = LongestPrefixKind(msg.table)
        /\ HasPrefix(msg.table, "orderBookL") => r.Types = "OrderbookL"
        /\ HasPrefix(msg.table, "orderBook") => r.Types \in {"Orderbook", "OrderbookL"}
        /\ HasPrefix(msg.table, "tradeBin") => r.Types = "TradeBin"

\* a Level-2 orderbook topic has been classified
C9_Witness ==
    /\ pc = "select"
    /\ msg.table = "orderBookL2:XBTUSD"
    /\ r.Types = "OrderbookL"

\* C10: for every topic of the form <prefix>:<symbol>, the ProductCode of
\* the event is the substring of the topic after its first ':'.
C10_SymbolAfterColon ==
    (pc \in {"select", "send"} /\ Contains(msg.table, ":")) =>
        r.ProductCode = SliceFrom(msg.table, Index(msg.table, ":") + 1)

\* a write of the operation that failed
Failed(op) == \E i \in Ops(op) : ~wire[i].ok

\* the cross product channel:symbol, channel-major and symbol-minor
CrossProduct(chans, syms) ==
    [k \in 1..(Len(chans) * Len(syms)) |->
        chans[((k - 1) \div Len(syms)) + 1] \o ":" \o syms[((k - 1) % Len(syms)) + 1]]

\* C11: with channels and symbols both non-empty, subscribe writes exactly
\* one request, op subscribe, whose args are the whole cross product
\* channel:symbol in channel-major order.
C11_CrossProductRequest ==
    (channels # <<>> /\ symbols.elems # <<>>) =>
        /\ Cardinality(Ops("subscribe")) <= 1
        /\ pc \notin {"Connect", "subscribe"} /\ ~Failed("authKeyExpires")
              => Cardinality(Ops("subscribe")) = 1
        /\ \A s \in Ops("subscribe") :
              /\ Len(wire[s].args.elems) = Len(channels) * Len(symbols.elems)
              /\ wire[s].args.elems = CrossProduct(channels, symbols.elems)

\* two channels by two symbols have been subscribed
C11_Witness ==
    /\ Ops("subscribe") # {}
    /\ Len(channels) = 2 /\ channels[1] # channels[2]
    /\ Len(symbols.elems) = 2 /\ symbols.elems[1] # symbols.elems[2]

\* C12: with symbols empty, absent or of length zero, subscribe writes
\* exactly one request whose args are the bare channel names in order.
C12_BareChannels ==
    (symbols.elems = <<>> /\ Ops("subscribe") # {}) =>
        /\ Cardinality(Ops("subscribe")) = 1
        /\ \A s \in Ops("subscribe") : wire[s].args.elems = channels

\* C13: each unsubscribe request has the argument list, in order, of the
\* subscribe request the session wrote before; only the op differs.
C13_UnsubscribeSameArgs ==
    \A u \in Ops("unsubscribe") :
        \E s \in Ops("subscribe") :
            /\ s < u
            /\ wire[s].ok
            /\ wire[s].args = wire[u].args
            /\ wire[s].op = "subscribe"

\* an unsubscribe with several args is on the wire
C13_Witness ==
    \E u \in Ops("unsubscribe") : Len(wire[u].args.elems) >= 2

\* C14: with a credential the authentication request is written exactly
\* once and first, before the subscribe; without one it is never written.
C14_AuthOnceFirst ==
    /\ Auth =>
          /\ Cardinality(Ops("authKeyExpires")) <= 1
          /\ wire # <<>> => wire[1].op = "authKeyExpires"
    /\ ~Auth => Ops("authKeyExpires") = {}

\* a session with a credential has authenticated and subscribed
C14_Witness ==
    /\ Auth
    /\ Ops("authKeyExpires") = {1}
    /\ Ops("subscribe") = {2}

\* C15: a failed authentication write makes Connect return an error with
\* no subscribe written, a failed subscribe write makes it return an error
\* without streaming; no keeper starts, nothing is read, nothing pushed.
C15_StartupFailureFatal ==
    /\ Failed("authKeyExpires") => Ops("subscribe") = {}
    /\ (Failed("authKeyExpires") \/ Failed("subscribe")) =>
          /\ pc \in {"defer", "done"}
          /\ ret \notin {NoReturn, NilError}
          /\ requests = <<>>
          /\ keeper = "off"
          /\ reads = <<>>
          /\ pushed = <<>>

\* Connect has returned after the subscribe write failed
C15_Witness ==
    /\ pc = "done"
    /\ Auth
    /\ Failed("subscribe")

\* C16: a read error or startup failure that ends one of two concurrent
\* sessions leaves the other session running: its connection stays open
\* and it keeps pushing events.
C16_FailureStaysLocal ==
    (p = "nil" \/ ReadFailed \/ Failed("authKeyExpires") \/ Failed("subscribe"))
        => PeerRunning

\* C17: at most one worker writes to the connection at any time: the
\* keeper's ping write is never in progress while the session worker is
\* writing an authentication, subscribe or unsubscribe request.
C17_OneWriter ==
    ~(keeper = "writing" /\ pc = "unsubWrite")

\* the step is a ping write that returns an error
PingFails ==
    /\ keeper = "writing"
    /\ keeper' # "panicked"
    /\ wire' = Append(wire, Written("ping", NilSlice, FALSE))

\* C18: a failed ping write never ends the session: the read loop stays
\* where it is, the keeper waits for its next tick, and Connect returns
\* only after a failed read or an observed cancellation.
C18_PingFailureHarmless ==
    /\ [][PingFails =>
            /\ keeper' = "waiting"
            /\ pc' = pc /\ err' = err /\ ret' = ret
            /\ conn' = conn /\ deferred' = deferred]_vars
    /\ [](pc \in {"wait", "defer", "unsubWrite", "done"} => (ReadFailed \/ SawDone))

\* two ping writes have failed and the session still streams
C18_Witness ==
    /\ Cardinality({ i \in Ops("ping") : ~wire[i].ok }) = 2
    /\ pc = "read"
    /\ keeper = "waiting"
    /\ ret = NoReturn

\* C19: once the context is done and the processing of the current frame
\* has finished, whatever its outcome, the read loop starts no further read.
C19_CheckpointEveryFrame ==
    [][(Done /\ pc \in {"process", "send"}) => pc' # "read"]_vars

\* C19, amended: the checkpoint follows the classification of a frame that
\* carries table and data and decodes, and precedes its push; when the
\* context is done there, the frame is not pushed and nothing more is read.
C19_CheckpointAfterDecoded ==
    /\ [](pc = "select" => ~Malformed(msg))
    /\ [][(pc = "select" /\ Done) =>
            /\ pc' \in {"select", "wait"}
            /\ pushed' = pushed
            /\ reads' = reads]_vars
    /\ [](SawDone => pc \notin {"read", "process", "select", "send"})

\* the loop saw the context done at the checkpoint of a decoded frame
C19_Witness ==
    /\ SawDone
    /\ pc = "wait"
    /\ ~Malformed(msg)
    /\ reads # <<>>
    /\ Len(pushed) < Len(reads)

\* a raw row that is an array of two numbers
WellFormed(row) ==
    /\ row.array
    /\ Len(row.elems) = 2
    /\ row.elems[1].float
    /\ row.elems[2].float

\* the rows the well-formed raw rows stand for, the others left out
SkipMalformed(rows) ==
    LET good == SelectSeq(rows, WellFormed)
    IN  [i \in 1..Len(good) |-> [Price |-> good[i].elems[1].val, Size |-> good[i].elems[2].val]]

\* C20: the row decode skips malformed rows one by one: a row that is no
\* array, has another arity than 2 or a non-numeric element gives no row,
\* a well-formed row gives {price, size} in its place, the decode succeeds.
C20_MalformedRowsSkipped ==
    (obret # NoReturn /\ b.json /\ b.asks.array /\ b.bids.array) =>
        /\ obret = NilError
        /\ ob.Bids.elems = SkipMalformed(b.bids.rows)

\* C21: decoding a snapshot that has an asks and a bids field yields an
\* OrderBook whose ask rows are the rows of asks and whose bid rows are the
\* rows of bids, each in its order.
C21_AsksAndBids ==
    (obret # NoReturn /\ b.json /\ b.asks.array /\ b.bids.array) =>
        /\ obret = NilError
        /\ ob.Asks.elems = Books(b.asks.rows)
        /\ ob.Bids.elems = Books(b.bids.rows)

\* C23: once Connect has closed the connection and returned, whichever way
\* the session ended, the keeper starts no further write on the connection.
C23_KeeperEndsWithSession ==
    [][(pc = "done" /\ conn = "closed" /\ keeper = "waiting") => keeper' # "writing"]_vars

\* the kinds a frame can stand for: all but All, Undefined and Error
EventKinds == { Types[i] : i \in 1..Len(Types) } \ {"All", "Undefined", "Error"}

\* C24: the classifier covers the enumeration: a frame whose topic is the
\* name of an event kind, orderBookL2 for orderBookL, and whose data decodes
\* is emitted with that kind as its discriminant, never as Undefined.
C24_ClassifierCovers ==
    pc \in {"select", "send"} =>
        \A k \in EventKinds :
            msg.table \in {String(k), String(k) \o "2"} \cap Topics => r.Types = k

\* C22: after the caller's context is cancelled Connect eventually returns
\* with the connection closed, every blocked read ending in a frame or an
\* error, whether or not a consumer still receives from the channel.
C22_CancelTerminates ==
    (ctx = Canceled) ~> (pc = "done" /\ conn = "closed")

====
